---- MODULE Spec2Model ----
(***************************************************************************)
(* A model of ilp-plugin-rddn: the PluginRddn adapter (src/src/lib/        *)
(* plugin.js), its transaction helpers (src/unnamed/part_001) and its      *)
(* error class (src/unnamed/part_000).                                     *)
(*                                                                         *)
(* Three parts share one state:                                            *)
(*   - the connection manager: setWeb3, connect, disconnect, the           *)
(*     _heartbeat interval with its liveness queries and probe sockets;    *)
(*   - the write operations: sendTransfer, fulfillCondition and            *)
(*     rejectIncomingTransfer with their error classification and retry;   *)
(*   - the event router: the Fulfill/Update handlers, _getRddnTransfer     *)
(*     and _processUpdate.                                                 *)
(* Every await of the code is a point where other callbacks may run, so    *)
(* each action is one synchronous stretch of code between two awaits.      *)
(***************************************************************************)
EXTENDS Naturals, Sequences, FiniteSets, Bags, TLC

----------------------------------------------------------------------------
(* Bounds of the model *)

\* pending probe sockets (createWebsocketProvider in _heartbeat) at one time
MaxAttempts == 2
\* pending isListening() queries at one time
MaxQueries == 2
\* handler registrations made on the externally supplied handle
MaxSubs == 1
\* retries of one write call
MaxRetry == 2
\* forced re-emissions in one behaviour
MaxForce == 2

----------------------------------------------------------------------------
(* Values *)

NULL == "null"
P1 == "P1"
P2 == "P2"
Endpoints == {P1, P2}
EXT == "ext"

\* the failure points of connect()'s try block, in the order of the code
FailPoints == {"none", "socket", "contract", "Deposit", "Withdraw", "Fulfill", "Update"}

VARIABLES
  primaryProvider,    \* this._primaryProvider
  secondaryProvider,  \* this._secondaryProvider
  provider,           \* this.provider, the selected endpoint
  web3,               \* this.web3: NULL or the endpoint the owned handle was opened against
  extWeb3,            \* this.extWeb3: NULL or EXT
  contract,           \* this.contract: NULL, "ext", "own" or "ownClosed"
  isProcessing,       \* this.isProcessing
  intervals,          \* number of setInterval timers started by _heartbeat
  attempts,           \* pending probe sockets per endpoint
  queries,            \* pending isListening() queries: on the open handle / on a closed one
  ownSubs,            \* channels with a handler on the open owned handle
  extSubs,            \* handler registrations per channel on the external handle
  manualDisc,         \* the caller's last connection call was disconnect()
  lastOp,             \* the last connection-manager step and what it did
  call,               \* the write call in progress, or the last one
  timers,             \* retry depths of the call whose _sleep timer is pending
  store,              \* the escrow store's record of the tracked transfer
  handlers,           \* bag of handlers and forceEmit calls awaiting a store read
  emitted,            \* lifecycle events emitted from the notification stream
  forced,             \* outcomes of the forceEmit calls that have ended
  lookup              \* the getTransfer(uuid) call whose id conversion is followed

connVars == <<primaryProvider, secondaryProvider, provider, web3, extWeb3, contract,
              isProcessing, intervals, attempts, queries, ownSubs, extSubs,
              manualDisc, lastOp>>
retryVars == <<call, timers>>
routerVars == <<store, handlers, emitted, forced>>
codecVars == <<lookup>>
vars == <<connVars, retryVars, routerVars, codecVars>>

----------------------------------------------------------------------------
(* Connection manager *)

\* isConnected(): !!this.web3 || !!this.extWeb3
isConnected == web3 # NULL \/ extWeb3 # NULL

\* the endpoint flip of _heartbeat
Flip(p) == IF p = primaryProvider THEN secondaryProvider ELSE primaryProvider

PendingAttempts == attempts[P1] + attempts[P2]
PendingQueries == queries.fresh + queries.stale

\* what a connection-manager step records about itself: who ran what, whether it
\* threw, the events it emitted, the endpoint it opened a probe socket to, and
\* the connection state it started from (isConnected() for the caller's
\* operations; the open handle and the selected endpoint for the probe's)
OpRec(op, by, threw, events, target, arg) ==
  [op |-> op, by |-> by, threw |-> threw, events |-> events,
   wasConnected |-> IF op \in {"connect", "disconnect"} THEN isConnected ELSE FALSE,
   ep |-> IF by = "probe" THEN web3 ELSE NULL,
   prov |-> IF by = "probe" THEN provider ELSE NULL,
   target |-> target, arg |-> arg]

\* closing the owned handle: web3.currentProvider.disconnect(); this.web3 = null
\* The handlers registered on it go with the socket, the requests pending on it
\* can no longer be answered, and this.contract keeps pointing at the dead handle.
CloseOwned ==
  /\ web3' = NULL
  /\ ownSubs' = {}
  /\ contract' = IF contract = "own" THEN "ownClosed" ELSE contract
  /\ queries' = [fresh |-> 0, stale |-> queries.stale + queries.fresh]

\* setWeb3(_web3)
SetWeb3(h) ==
  /\ extWeb3' = h
  /\ lastOp' = OpRec("setWeb3", "caller", FALSE, <<>>, NULL, h)
  /\ UNCHANGED <<primaryProvider, secondaryProvider, provider, web3, contract, isProcessing,
                 intervals, attempts, queries, ownSubs, extSubs, manualDisc>>
  /\ UNCHANGED <<retryVars, routerVars, codecVars>>

\* the channels whose handler is registered when connect() fails at f
Registered(f) ==
  IF f = "none" THEN {"Fulfill", "Update"}
  ELSE IF f = "Update" THEN {"Fulfill"}
  ELSE {}

\* a bug the single-timer claim must detect: the isProcessing guard is missing
HeartbeatStartUnguarded ==
  IF extWeb3 # NULL
  THEN UNCHANGED <<isProcessing, intervals>>
  ELSE isProcessing' = TRUE /\ intervals' = intervals + 1

\* _heartbeat(): starts the interval unless external or already started
HeartbeatStart ==
  IF extWeb3 # NULL \/ isProcessing
  THEN UNCHANGED <<isProcessing, intervals>>
  ELSE isProcessing' = TRUE /\ intervals' = intervals + 1

\* connect(), called by the caller or by a probe socket's 'connect' callback;
\* f is the step of the try block that throws ("none": nothing throws)
ConnectBody(by, f, e) ==
  /\ IF extWeb3 # NULL
     THEN /\ f # "socket"
          /\ \A c \in Registered(f) : extSubs[c] < MaxSubs
          /\ contract' = IF f = "contract" THEN contract ELSE "ext"
          /\ extSubs' = [c \in {"Fulfill", "Update"} |->
                           IF c \in Registered(f) THEN extSubs[c] + 1 ELSE extSubs[c]]
          /\ UNCHANGED <<web3, ownSubs>>
     ELSE IF web3 # NULL
     THEN /\ f = "none"
          /\ UNCHANGED <<web3, contract, ownSubs, extSubs>>
     ELSE /\ web3' = IF f = "socket" THEN NULL ELSE provider
          /\ contract' = IF f \in {"socket", "contract"} THEN contract ELSE "own"
          /\ ownSubs' = Registered(f)
          /\ UNCHANGED extSubs
  /\ IF f # "none"
     THEN /\ lastOp' = OpRec("connect", by, TRUE, <<>>, e, f)
          /\ UNCHANGED <<isProcessing, intervals>>
     ELSE IF extWeb3 = NULL /\ web3 # NULL
     THEN /\ lastOp' = OpRec("connect", by, FALSE, <<>>, e, "noop")
          /\ UNCHANGED <<isProcessing, intervals>>
     ELSE /\ lastOp' = OpRec("connect", by, FALSE, <<"connect">>, e, f)
          /\ HeartbeatStart
  /\ UNCHANGED <<primaryProvider, secondaryProvider, provider, extWeb3, queries>>

Connect(f) ==
  /\ ConnectBody("caller", f, NULL)
  /\ manualDisc' = FALSE
  /\ UNCHANGED attempts
  /\ UNCHANGED <<retryVars, routerVars, codecVars>>

\* disconnect()
Disconnect ==
  /\ IF web3 = NULL
     THEN /\ lastOp' = OpRec("disconnect", "caller", FALSE, <<>>, NULL, "noop")
          /\ UNCHANGED <<web3, ownSubs, contract, queries>>
     ELSE /\ CloseOwned
          /\ lastOp' = OpRec("disconnect", "caller", FALSE, <<"disconnect">>, NULL, "closed")
  /\ manualDisc' = TRUE
  /\ UNCHANGED <<primaryProvider, secondaryProvider, provider, extWeb3, isProcessing,
                 intervals, attempts, extSubs>>
  /\ UNCHANGED <<retryVars, routerVars, codecVars>>

\* one run of the setInterval callback up to its await (or its end)
Tick ==
  /\ intervals > 0
  /\ IF web3 = NULL
     THEN /\ PendingAttempts < MaxAttempts
          /\ provider' = Flip(provider)
          /\ attempts' = [attempts EXCEPT ![Flip(provider)] = @ + 1]
          /\ lastOp' = OpRec("tick", "probe", FALSE, <<>>, Flip(provider), "reconnect")
          /\ UNCHANGED queries
     ELSE /\ PendingQueries < MaxQueries
          /\ queries' = [queries EXCEPT !.fresh = @ + 1]
          /\ lastOp' = OpRec("tick", "probe", FALSE, <<>>, NULL, "query")
          /\ UNCHANGED <<provider, attempts>>
  /\ UNCHANGED <<primaryProvider, secondaryProvider, web3, extWeb3, contract, isProcessing,
                 intervals, ownSubs, extSubs, manualDisc>>
  /\ UNCHANGED <<retryVars, routerVars, codecVars>>

\* isListening() resolves: the tick ends
QueryOk ==
  /\ queries.fresh > 0
  /\ queries' = [queries EXCEPT !.fresh = @ - 1]
  /\ lastOp' = OpRec("probeOk", "probe", FALSE, <<>>, NULL, "fresh")
  /\ UNCHANGED <<primaryProvider, secondaryProvider, provider, web3, extWeb3, contract,
                 isProcessing, intervals, attempts, ownSubs, extSubs, manualDisc>>
  /\ UNCHANGED <<retryVars, routerVars, codecVars>>

\* a bug the failover claim must detect: the probe socket is opened before the
\* selected endpoint is flipped, so it targets the endpoint that just failed
FailureHandlerLateFlip(k) ==
  IF web3 = NULL
  THEN /\ queries' = [queries EXCEPT ![k] = @ - 1]
       /\ lastOp' = OpRec("probeFailure", "probe", TRUE, <<>>, NULL, k)
       /\ UNCHANGED <<web3, ownSubs, contract, provider, attempts>>
  ELSE /\ PendingAttempts < MaxAttempts
       /\ web3' = NULL
       /\ ownSubs' = {}
       /\ contract' = IF contract = "own" THEN "ownClosed" ELSE contract
       /\ queries' = [fresh |-> 0, stale |-> queries.stale + queries.fresh - 1]
       /\ provider' = Flip(provider)
       /\ attempts' = [attempts EXCEPT ![provider] = @ + 1]
       /\ lastOp' = OpRec("probeFailure", "probe", FALSE, <<>>, provider, k)

\* a bug the bound-endpoint claim must detect: the handler flips the selected
\* endpoint and opens the probe socket but leaves the failed handle bound
FailureHandlerKeepsHandle(k) ==
  IF web3 = NULL
  THEN /\ queries' = [queries EXCEPT ![k] = @ - 1]
       /\ lastOp' = OpRec("probeFailure", "probe", TRUE, <<>>, NULL, k)
       /\ UNCHANGED <<web3, ownSubs, contract, provider, attempts>>
  ELSE /\ PendingAttempts < MaxAttempts
       /\ queries' = [queries EXCEPT ![k] = @ - 1]
       /\ provider' = Flip(provider)
       /\ attempts' = [attempts EXCEPT ![Flip(provider)] = @ + 1]
       /\ lastOp' = OpRec("probeFailure", "probe", FALSE, <<>>, Flip(provider), k)
       /\ UNCHANGED <<web3, ownSubs, contract>>

\* the .catch handler of isListening(): k says whether the query was sent on the
\* handle that is still open ("fresh") or on one closed since ("stale")
FailureHandler(k) ==
  IF web3 = NULL
  THEN \* this.web3.currentProvider: TypeError, the callback's promise rejects
       /\ queries' = [queries EXCEPT ![k] = @ - 1]
       /\ lastOp' = OpRec("probeFailure", "probe", TRUE, <<>>, NULL, k)
       /\ UNCHANGED <<web3, ownSubs, contract, provider, attempts>>
  ELSE /\ PendingAttempts < MaxAttempts
       /\ web3' = NULL
       /\ ownSubs' = {}
       /\ contract' = IF contract = "own" THEN "ownClosed" ELSE contract
       /\ queries' = [fresh |-> 0, stale |-> queries.stale + queries.fresh - 1]
       /\ provider' = Flip(provider)
       /\ attempts' = [attempts EXCEPT ![Flip(provider)] = @ + 1]
       /\ lastOp' = OpRec("probeFailure", "probe", FALSE, <<>>, Flip(provider), k)

QueryFail(k) ==
  /\ queries[k] > 0
  /\ FailureHandler(k)
  /\ UNCHANGED <<primaryProvider, secondaryProvider, extWeb3, isProcessing, intervals,
                 extSubs, manualDisc>>
  /\ UNCHANGED <<retryVars, routerVars, codecVars>>

\* a probe socket connects: provider.on('connect', async () => await this.connect())
AttemptConnect(e, f) ==
  /\ attempts[e] > 0
  /\ attempts' = [attempts EXCEPT ![e] = @ - 1]
  /\ ConnectBody("probe", f, e)
  /\ UNCHANGED manualDisc
  /\ UNCHANGED <<retryVars, routerVars, codecVars>>

\* a probe socket never connects
AttemptFail(e) ==
  /\ attempts[e] > 0
  /\ attempts' = [attempts EXCEPT ![e] = @ - 1]
  /\ lastOp' = OpRec("attemptFail", "probe", FALSE, <<>>, NULL, e)
  /\ UNCHANGED <<primaryProvider, secondaryProvider, provider, web3, extWeb3, contract,
                 isProcessing, intervals, queries, ownSubs, extSubs, manualDisc>>
  /\ UNCHANGED <<retryVars, routerVars, codecVars>>

NextConn ==
  \/ \E h \in {NULL, EXT} : SetWeb3(h)
  \/ \E f \in FailPoints : Connect(f)
  \/ Disconnect
  \/ Tick
  \/ QueryOk
  \/ \E k \in {"fresh", "stale"} : QueryFail(k)
  \/ \E e \in Endpoints, f \in FailPoints : AttemptConnect(e, f)
  \/ \E e \in Endpoints : AttemptFail(e)

----------------------------------------------------------------------------
(* Write operations: Transaction.* (part_001), the error classification of
   _fulfillCondition, _rejectIncomingTransfer and sendTransfer, and the retry of
   fulfillCondition and rejectIncomingTransfer *)

\* error.message.indexOf(p) >= 0
Contains(s, p) ==
  \E i \in 1..(Len(s) + 1 - Len(p)) : SubSeq(s, i, i + Len(p) - 1) = p

Underpriced == "replacement transaction underpriced"
Known == "known transaction"

\* new Errors.PastSequenceError(): told apart by its class, it carries no message
PastSequenceError == "PastSequenceError"

\* rejections of sendSignedTransaction by the node
NodeRejections == {"Returned error: replacement transaction underpriced",
                   "Returned error: known transaction: 7d1e",
                   "Returned error: nonce too low"}
\* failures of a request on a socket that is gone
ConnErrors == {"connection not open on send()"}
\* thrown by Transaction.* before any request when a handle is missing
NoContractError == "Cannot read property 'methods' of undefined"
NoWeb3Error == "Cannot read property 'eth' of null"
MustBeConnected == "must be connected"

WriteOps == {"sendTransfer", "fulfillCondition", "rejectIncomingTransfer"}
RetriedOps == {"fulfillCondition", "rejectIncomingTransfer"}

\* the catch block of _fulfillCondition
ClassifyFulfill(m) ==
  IF Contains(m, Underpriced) THEN PastSequenceError
  ELSE IF Contains(m, Known) THEN PastSequenceError
  ELSE m

\* the catch block of _rejectIncomingTransfer
ClassifyReject(m) ==
  IF Contains(m, Underpriced) THEN PastSequenceError
  ELSE IF Contains(m, Known) THEN PastSequenceError
  ELSE m

\* the catch block of sendTransfer
ClassifySend(m) ==
  IF Contains(m, Underpriced) THEN PastSequenceError
  ELSE m

\* the error the inner operation throws for a failure with message m
Thrown(op, m) ==
  CASE op = "fulfillCondition" -> ClassifyFulfill(m)
    [] op = "rejectIncomingTransfer" -> ClassifyReject(m)
    [] OTHER -> ClassifySend(m)

\* a bug the retry claims must detect: the re-issued call is not awaited
OnErrorDetached(op, e) ==
  IF op \in RetriedOps /\ e = PastSequenceError THEN "resolve" ELSE "throw"

\* a bug the propagation claim must detect: a stale-nonce rejection is retried too
OnErrorNonce(op, e) ==
  IF op \in RetriedOps /\ (e = PastSequenceError \/ Contains(e, "nonce too low"))
  THEN "retry" ELSE "throw"

\* the catch block of fulfillCondition / rejectIncomingTransfer:
\* error instanceof Errors.PastSequenceError ? sleep and re-issue : throw.
\* sendTransfer has no such wrapper: what it throws reaches the caller.
OnError(op, e) ==
  IF op \in RetriedOps /\ e = PastSequenceError THEN "retry" ELSE "throw"

IdleCall ==
  [op |-> "none", pc |-> "idle", depth |-> 0, submissions |-> 0, conflicts |-> 0,
   resolves |-> 0, lastFail |-> NULL, thrown |-> NULL, err |-> NULL]

\* the error Transaction.* throws before its first request, or NULL
EarlyError ==
  IF contract = NULL THEN NoContractError
  ELSE IF web3 = NULL /\ extWeb3 = NULL THEN NoWeb3Error
  ELSE NULL

\* the call c after one attempt of it failed with message m
RECURSIVE Failed(_, _)
Failed(c, m) ==
  LET e == Thrown(c.op, m)
      d == [c EXCEPT !.lastFail = m, !.thrown = e]
      how == OnError(c.op, e)
  IN  IF how = "retry"
      THEN \* this._sleep(500) is not awaited: the call is re-issued at once and
           \* runs up to the first await of Transaction.*
           IF EarlyError # NULL
           THEN Failed([d EXCEPT !.depth = @ + 1], EarlyError)
           ELSE [d EXCEPT !.depth = @ + 1, !.pc = "nonce"]
      ELSE IF how = "resolve"
      THEN [d EXCEPT !.pc = "resolved", !.resolves = @ + 1]
      ELSE [d EXCEPT !.pc = "rejected", !.err = e]

\* the _sleep timers a failure with message m starts
Sleeps(c, m) ==
  IF OnError(c.op, Thrown(c.op, m)) = "retry" THEN {c.depth + 1} ELSE {}

\* a caller invokes sendTransfer, fulfillCondition or rejectIncomingTransfer
StartCall(op) ==
  /\ call.pc \in {"idle", "resolved", "rejected"}
  /\ LET c == [IdleCall EXCEPT !.op = op]
     IN  call' = IF op = "sendTransfer" /\ ~isConnected
                 THEN [c EXCEPT !.pc = "rejected", !.err = MustBeConnected]
                 ELSE IF EarlyError # NULL
                 THEN Failed(c, EarlyError)
                 ELSE [c EXCEPT !.pc = "nonce"]
  /\ timers' = {}
  /\ UNCHANGED <<connVars, routerVars, codecVars>>

\* getTransactionCount resolves: the transaction is signed and submitted
NonceOk ==
  /\ call.pc = "nonce"
  /\ call' = [call EXCEPT !.pc = "send", !.submissions = @ + 1]
  /\ UNCHANGED timers
  /\ UNCHANGED <<connVars, routerVars, codecVars>>

\* getTransactionCount fails
NonceFail(m) ==
  /\ call.pc = "nonce"
  /\ Sleeps(call, m) = {}
  /\ call' = Failed(call, m)
  /\ UNCHANGED timers
  /\ UNCHANGED <<connVars, routerVars, codecVars>>

\* the node accepts the submission
SendOk ==
  /\ call.pc = "send"
  /\ call' = [call EXCEPT !.pc = "resolved", !.resolves = @ + 1]
  /\ UNCHANGED timers
  /\ UNCHANGED <<connVars, routerVars, codecVars>>

\* the submission fails with message m
SendFail(m) ==
  /\ call.pc = "send"
  /\ Sleeps(call, m) # {} => call.depth < MaxRetry
  /\ call' = Failed([call EXCEPT !.conflicts =
                       IF Contains(m, Underpriced) \/ Contains(m, Known) THEN @ + 1 ELSE @], m)
  /\ timers' = timers \cup Sleeps(call, m)
  /\ UNCHANGED <<connVars, routerVars, codecVars>>

\* a _sleep timer expires: setTimeout's callback resolves a promise nobody awaits
TimerFire(d) ==
  /\ d \in timers
  /\ timers' = timers \ {d}
  /\ UNCHANGED call
  /\ UNCHANGED <<connVars, routerVars, codecVars>>

\* the caller's connection calls decide whether an attempt finds its handles
NextRetry ==
  \/ \E h \in {NULL, EXT} : SetWeb3(h)
  \/ \E f \in FailPoints : Connect(f)
  \/ Disconnect
  \/ \E op \in WriteOps : StartCall(op)
  \/ NonceOk
  \/ \E m \in ConnErrors : NonceFail(m)
  \/ SendOk
  \/ \E m \in NodeRejections \cup ConnErrors : SendFail(m)
  \/ \E d \in 1..MaxRetry : TimerFire(d)

----------------------------------------------------------------------------
(* Event router: the Fulfill and Update handlers of connect(), _getRddnTransfer
   and _processUpdate, for one tracked transfer id *)

\* opts.prefix and opts.address
Prefix == "rddn."
SelfAddress == "0xA"
OtherAddress == "0xB"
ThirdAddress == "0xC"
ZeroAddress == "0x0000000000000000000000000000000000000000"

\* the (from, to) pairs a transfer is created with: outgoing, incoming,
\* third-party, and self to self
Parties == {<<SelfAddress, OtherAddress>>, <<OtherAddress, SelfAddress>>,
            <<OtherAddress, ThirdAddress>>, <<SelfAddress, SelfAddress>>}

\* getTransfer(_id) on an id the store does not hold: the zero record
ZeroRecord == [from |-> ZeroAddress, to |-> ZeroAddress, state |-> 0]

\* getAccount()
getAccount == Prefix \o SelfAddress

\* hexToAccount(prefix, account)
hexToAccount(prefix, account) == prefix \o account

\* stateToName(state): (['prepare', 'fulfill', 'abort'])[state]
stateToName(state) ==
  IF state = 0 THEN "prepare"
  ELSE IF state = 1 THEN "fulfill"
  ELSE IF state = 2 THEN "abort"
  ELSE "undefined"

\* the object _getRddnTransfer returns for the raw record r
Transfer(r) ==
  IF r.from = ZeroAddress
  THEN [from |-> "", to |-> "", state |-> ""]
  ELSE [from |-> hexToAccount(Prefix, r.from), to |-> hexToAccount(Prefix, r.to),
        state |-> stateToName(r.state)]

\* the direction _processUpdate computes: the second test overrides the first
Direction(t) ==
  IF t.to = getAccount THEN "incoming"
  ELSE IF t.from = getAccount THEN "outgoing"
  ELSE "undefined"

\* the event _processUpdate(transfer, fulfillment) emits; ful says whether the
\* fulfillment argument is defined, src names the handler that called
ProcessUpdate(t, ful, src) ==
  LET direction == Direction(t)
  IN  IF direction = "undefined"
      THEN [name |-> "event_" \o t.state, state |-> t.state, dir |-> direction,
            ful |-> ful, args |-> IF t.state = "fulfill" THEN 2 ELSE 1, src |-> src]
      ELSE [name |-> direction \o "_" \o t.state, state |-> t.state, dir |-> direction,
            ful |-> ful, args |-> IF t.state = "fulfill" THEN 3 ELSE 1, src |-> src]

\* handler registrations that a notification on channel c reaches
LiveSubs(c) == (IF c \in ownSubs THEN 1 ELSE 0) + extSubs[c]

\* the handlers a notification on channel c starts: each runs up to its first
\* await, the getTransfer(_id).call() of _getRddnTransfer
\* n names the store transition being announced
Notify(c, n) ==
  IF LiveSubs(c) = 0 THEN handlers
  ELSE handlers (+) [h \in {[kind |-> c, pc |-> "getTransfer", rec |-> ZeroRecord,
                             note |-> n]} |-> LiveSubs(c)]

\* the escrow store accepts createTransfer: the record appears in state prepare
\* and the store announces it on the Update channel
StoreCreate(pt) ==
  /\ store = ZeroRecord
  /\ store' = [from |-> pt[1], to |-> pt[2], state |-> 0]
  /\ handlers' = Notify("Update", "create")
  /\ UNCHANGED <<emitted, forced>>
  /\ UNCHANGED <<connVars, retryVars, codecVars>>

\* the escrow store accepts fulfillTransfer: prepare -> fulfill, announced on Fulfill
StoreFulfill ==
  /\ store # ZeroRecord
  /\ store.state = 0
  /\ store' = [store EXCEPT !.state = 1]
  /\ handlers' = Notify("Fulfill", "fulfill")
  /\ UNCHANGED <<emitted, forced>>
  /\ UNCHANGED <<connVars, retryVars, codecVars>>

\* the escrow store accepts abortTransfer: prepare -> abort, announced on Update
StoreAbort ==
  /\ store # ZeroRecord
  /\ store.state = 0
  /\ store' = [store EXCEPT !.state = 2]
  /\ handlers' = Notify("Update", "abort")
  /\ UNCHANGED <<emitted, forced>>
  /\ UNCHANGED <<connVars, retryVars, codecVars>>

\* the escrow store moves the record to its fourth state, reject (code 3, which
\* stateToName does not know), announced on Update
StoreReject ==
  /\ store # ZeroRecord
  /\ store.state = 0
  /\ store' = [store EXCEPT !.state = 3]
  /\ handlers' = Notify("Update", "reject")
  /\ UNCHANGED <<emitted, forced>>
  /\ UNCHANGED <<connVars, retryVars, codecVars>>

Drop(h) == handlers (-) SetToBag({h})

\* what handler h emits once _getRddnTransfer has returned the projection of r:
\* the Fulfill handler passes the fulfillment, the Update handler does not
Dispatch(h, r) ==
  LET e == ProcessUpdate(Transfer(r), h.kind = "Fulfill", h.kind)
  IN  [name |-> e.name, state |-> e.state, dir |-> e.dir, ful |-> e.ful,
       args |-> e.args, src |-> e.src, note |-> h.note]

\* the two forced re-emission operations
ForceOps == {"forceEmitPrepare", "forceEmitFulfill"}

ReferenceError == "ReferenceError: _ is not defined"
ReadError == "Error: read failed"

\* how a forceEmit call ends
ForceRec(op, result, err, event, t) ==
  [op |-> op, result |-> result, err |-> err, event |-> event, from |-> t.from, to |-> t.to]

\* the tail of forceEmitPrepare / forceEmitFulfill once getTransfer has returned
\* t. forceEmitPrepare names the unbound identifier _ as soon as transfer.from or
\* transfer.to is not the adapter's account: evaluating it throws
ForceOutcome(op, t) ==
  IF op = "forceEmitPrepare"
  THEN IF t.from # getAccount \/ t.to # getAccount
       THEN ForceRec(op, "throws", ReferenceError, NULL, t)
       ELSE ForceRec(op, "true", NULL, "incoming_prepare", t)
  ELSE IF Direction(t) = "undefined"
       THEN ForceRec(op, "false", NULL, NULL, t)
       ELSE ForceRec(op, "true", NULL, Direction(t) \o "_fulfill", t)

\* forceEmit calls that have not ended
PendingForce ==
  BagCardinality([h \in {x \in BagToSet(handlers) : x.kind \in ForceOps} |-> handlers[h]])

\* forceEmitPrepare(id) / forceEmitFulfill(id, fulfillment, ilp) up to the first
\* await: getTransfer -> _getRddnTransfer names this.contract.methods, which
\* throws while no store handle is bound
ForceEmit(op) ==
  /\ Len(forced) + PendingForce < MaxForce
  /\ IF contract = NULL
     THEN /\ forced' = Append(forced, ForceRec(op, "throws", NoContractError, NULL,
                                               Transfer(ZeroRecord)))
          /\ UNCHANGED handlers
     ELSE /\ handlers' = handlers (+) SetToBag({[kind |-> op, pc |-> "getTransfer",
                                                 rec |-> ZeroRecord, note |-> "force"]})
          /\ UNCHANGED forced
  /\ UNCHANGED <<store, emitted>>
  /\ UNCHANGED <<connVars, retryVars, codecVars>>

ForceEmitPrepare == ForceEmit("forceEmitPrepare")
ForceEmitFulfill == ForceEmit("forceEmitFulfill")

\* _getRddnTransfer has returned the projection of r to h: a notification
\* handler calls _processUpdate, a forceEmit call runs its own dispatch
Resume(h, r) ==
  IF h.kind \in ForceOps
  THEN /\ forced' = Append(forced, ForceOutcome(h.kind, Transfer(r)))
       /\ UNCHANGED emitted
  ELSE /\ emitted' = Append(emitted, Dispatch(h, r))
       /\ UNCHANGED forced

\* getTransfer(_id).call() resolves with the record the store holds now
GetTransferReturns(h) ==
  /\ BagIn(h, handlers)
  /\ h.pc = "getTransfer"
  /\ IF store.from = ZeroAddress
     THEN \* the 'not found' object is returned and dispatched at once
          /\ handlers' = Drop(h)
          /\ Resume(h, store)
     ELSE /\ handlers' = Drop(h) (+) SetToBag({[h EXCEPT !.pc = "getMoneyId", !.rec = store]})
          /\ UNCHANGED <<emitted, forced>>
  /\ UNCHANGED store
  /\ UNCHANGED <<connVars, retryVars, codecVars>>

\* getMoneyIdByTransferId(_id).call() resolves
GetMoneyIdReturns(h) ==
  /\ BagIn(h, handlers)
  /\ h.pc = "getMoneyId"
  /\ handlers' = Drop(h) (+) SetToBag({[h EXCEPT !.pc = "getIlp"]})
  /\ UNCHANGED <<store, emitted, forced>>
  /\ UNCHANGED <<connVars, retryVars, codecVars>>

\* getIlpPacket(_id).call() resolves: _getRddnTransfer returns and the handler
\* calls _processUpdate
GetIlpReturns(h) ==
  /\ BagIn(h, handlers)
  /\ h.pc = "getIlp"
  /\ handlers' = Drop(h)
  /\ Resume(h, h.rec)
  /\ UNCHANGED store
  /\ UNCHANGED <<connVars, retryVars, codecVars>>

\* a store read of the handler fails: its promise rejects and nothing is
\* emitted; a forceEmit call rethrows the error to its caller
ReadFails(h) ==
  /\ BagIn(h, handlers)
  /\ handlers' = Drop(h)
  /\ forced' = IF h.kind \in ForceOps
               THEN Append(forced, ForceRec(h.kind, "throws", ReadError, NULL,
                                            Transfer(ZeroRecord)))
               ELSE forced
  /\ UNCHANGED <<store, emitted>>
  /\ UNCHANGED <<connVars, retryVars, codecVars>>

\* the caller's connection calls decide which handlers are registered
NextRouter ==
  \/ \E h \in {NULL, EXT} : SetWeb3(h)
  \/ \E f \in FailPoints : Connect(f)
  \/ Disconnect
  \/ \E pt \in Parties : StoreCreate(pt)
  \/ StoreFulfill
  \/ StoreAbort
  \/ StoreReject
  \/ \E h \in BagToSet(handlers) : GetTransferReturns(h)
  \/ \E h \in BagToSet(handlers) : GetMoneyIdReturns(h)
  \/ \E h \in BagToSet(handlers) : GetIlpReturns(h)
  \/ \E h \in BagToSet(handlers) : ReadFails(h)

\* forced re-emission next to the notification stream, on an adapter that
\* owns its connection and whose connect() succeeds
NextForce ==
  \/ Connect("none")
  \/ Disconnect
  \/ \E pt \in Parties : StoreCreate(pt)
  \/ StoreFulfill
  \/ StoreAbort
  \/ StoreReject
  \/ ForceEmitPrepare
  \/ ForceEmitFulfill
  \/ \E h \in BagToSet(handlers) : GetTransferReturns(h)
  \/ \E h \in BagToSet(handlers) : GetMoneyIdReturns(h)
  \/ \E h \in BagToSet(handlers) : GetIlpReturns(h)
  \/ \E h \in BagToSet(handlers) : ReadFails(h)

----------------------------------------------------------------------------
(* Identifier codec: uuidToHex on the way to the store, uuidParse.unparse of the
   decoded bytes on the way back *)

LowerDigits == "0123456789abcdef"
UpperDigits == "0123456789ABCDEF"

Char(s, i) == SubSeq(s, i, i)

\* the characters a UUID is written with
HexChars == {Char(LowerDigits, i) : i \in 1..16} \cup {Char(UpperDigits, i) : i \in 1..16}

\* the value of hex digit c, in either case
HexVal(c) == CHOOSE v \in 0..15 : c \in {Char(LowerDigits, v + 1), Char(UpperDigits, v + 1)}

\* uuid.replace(/-/g, '')
RECURSIVE StripDashes(_)
StripDashes(s) ==
  IF s = "" THEN ""
  ELSE (IF Char(s, 1) = "-" THEN "" ELSE Char(s, 1)) \o StripDashes(SubSeq(s, 2, Len(s)))

\* uuidToHex(uuid)
uuidToHex(uuid) == "0x" \o StripDashes(uuid)

\* Buffer.from(h, 'hex'): one byte per pair of hex digits, ending at the first
\* pair that is not two hex digits
RECURSIVE BufferFromHex(_)
BufferFromHex(h) ==
  IF Len(h) < 2 \/ Char(h, 1) \notin HexChars \/ Char(h, 2) \notin HexChars
  THEN <<>>
  ELSE <<16 * HexVal(Char(h, 1)) + HexVal(Char(h, 2))>>
         \o BufferFromHex(SubSeq(h, 3, Len(h)))

\* a bug the round-trip claim must detect: the byte table written in upper case
ByteToHexUpper(b) == Char(UpperDigits, (b \div 16) + 1) \o Char(UpperDigits, (b % 16) + 1)

\* uuid-parse's byte table: (i + 0x100).toString(16).substr(1), lower case
ByteToHex(b) == Char(LowerDigits, (b \div 16) + 1) \o Char(LowerDigits, (b % 16) + 1)

\* uuidParse.unparse(buf): sixteen table look-ups joined 4-2-2-2-6; a byte the
\* buffer does not have is printed as undefined
Unparse(buf) ==
  LET bth(i) == IF i <= Len(buf) THEN ByteToHex(buf[i]) ELSE "undefined"
  IN  bth(1) \o bth(2) \o bth(3) \o bth(4) \o "-" \o bth(5) \o bth(6) \o "-"
        \o bth(7) \o bth(8) \o "-" \o bth(9) \o bth(10) \o "-"
        \o bth(11) \o bth(12) \o bth(13) \o bth(14) \o bth(15) \o bth(16)

\* the id field _getRddnTransfer gives the transfer it resolved for ledger id _id
UnparsedId(id) == Unparse(BufferFromHex(SubSeq(id, 3, Len(id))))

\* valid UUID strings a caller passes: the example of getTransfer's
\* documentation with its first and last digit varied over both cases
Uuids ==
  {a \o "55585e1-0c19-4588-832d-369cfa00564" \o b : a \in HexChars, b \in {"0", "9", "a", "F"}}

IdleLookup == [pc |-> "idle", uuid |-> "", hex |-> "", id |-> ""]

\* getTransfer(uuid) up to the first await of _getRddnTransfer
GetTransferCall(u) ==
  /\ lookup.pc # "reading"
  /\ lookup' = [pc |-> "reading", uuid |-> u, hex |-> uuidToHex(u), id |-> ""]
  /\ UNCHANGED <<connVars, retryVars, routerVars>>

\* the store reads resolve and _getRddnTransfer builds the transfer
GetTransferResolves ==
  /\ lookup.pc = "reading"
  /\ lookup' = [lookup EXCEPT !.pc = "done", !.id = UnparsedId(lookup.hex)]
  /\ UNCHANGED <<connVars, retryVars, routerVars>>

NextCodec ==
  \/ \E u \in Uuids : GetTransferCall(u)
  \/ GetTransferResolves

----------------------------------------------------------------------------
(* Construction *)

\* constructor(opts): opts.provider is P1, opts.altProvider is P2 or absent
InitConn ==
  /\ primaryProvider = P1
  /\ secondaryProvider \in {P1, P2}
  /\ provider = P1
  /\ web3 = NULL
  /\ extWeb3 = NULL
  /\ contract = NULL
  /\ isProcessing = FALSE
  /\ intervals = 0
  /\ attempts = [e \in Endpoints |-> 0]
  /\ queries = [fresh |-> 0, stale |-> 0]
  /\ ownSubs = {}
  /\ extSubs = [c \in {"Fulfill", "Update"} |-> 0]
  /\ manualDisc = FALSE
  /\ lastOp = [op |-> "new", by |-> "caller", threw |-> FALSE, events |-> <<>>,
               wasConnected |-> FALSE, ep |-> NULL, prov |-> NULL, target |-> NULL,
               arg |-> NULL]

InitRetry ==
  /\ call = IdleCall
  /\ timers = {}

InitRouter ==
  /\ store = ZeroRecord
  /\ handlers = EmptyBag
  /\ emitted = <<>>
  /\ forced = <<>>

InitCodec ==
  lookup = IdleLookup

Init == InitConn /\ InitRetry /\ InitRouter /\ InitCodec

SpecConn == Init /\ [][NextConn]_vars
SpecRetry == Init /\ [][NextRetry]_vars
SpecRouter == Init /\ [][NextRouter]_vars
SpecForce == Init /\ [][NextForce]_vars
SpecCodec == Init /\ [][NextCodec]_vars

\* the whole adapter: the three parts running side by side
Next == NextConn \/ NextRetry \/ NextRouter \/ NextForce \/ NextCodec
Spec == Init /\ [][Next]_vars

----------------------------------------------------------------------------
(* Claims about the write operations, checked under SpecRetry *)

\* the spec's notion of a sequencing-conflict rejection text
ConflictText(m) == Contains(m, Underpriced) \/ Contains(m, Known)

\* C1: after a SequenceConflict in fulfillCondition or rejectIncomingTransfer the
\* call is re-issued only once the 500 ms backoff timer has expired: while the
\* timer started for retry d is pending, the call has not reached retry d.
C1_RetryWaitsForBackoff ==
  \A d \in timers : call.depth < d

\* C2: a retried write call that resolves has resolved exactly once and has made
\* exactly one submission more than the number of submissions the node rejected
\* with a sequencing-conflict text.
C2_RetryConvergence ==
  (call.op \in RetriedOps /\ call.pc = "resolved")
    => (call.resolves = 1 /\ call.submissions = call.conflicts + 1)

\* C2's case: two conflicts, then the third submission is accepted
C2_Witness ==
  /\ call.op = "fulfillCondition"
  /\ call.pc = "resolved"
  /\ call.conflicts = 2
  /\ call.submissions = 3

\* C3: all three write operations turn a rejection whose text contains
\* "replacement transaction underpriced" or "known transaction" into
\* PastSequenceError and throw every other rejection unchanged.
C3_UniformClassification ==
  (call.op \in WriteOps /\ call.lastFail # NULL)
    => call.thrown = IF ConflictText(call.lastFail) THEN PastSequenceError
                     ELSE call.lastFail

\* C4: when an attempt of fulfillCondition or rejectIncomingTransfer fails with
\* an error that is not a PastSequenceError, the call is rejected with that very
\* error and is not re-issued, at whatever retry depth.
C4_NonConflictPropagates ==
  (call.op \in RetriedOps /\ call.lastFail # NULL /\ call.thrown # PastSequenceError)
    => (call.pc = "rejected" /\ call.err = call.lastFail)

\* C4's case: a non-conflict rejection after one retry
C4_Witness ==
  /\ call.op = "rejectIncomingTransfer"
  /\ call.pc = "rejected"
  /\ call.depth = 1
  /\ call.submissions = 2
  /\ call.err = "Returned error: nonce too low"

----------------------------------------------------------------------------
(* Claims about the connection manager, checked under SpecConn *)

\* C5: a connect() that throws during setup, called on a disconnected adapter,
\* leaves the adapter disconnected and emits no 'connect' event.
C5_FailedConnectStaysDisconnected ==
  (lastOp.op = "connect" /\ lastOp.threw /\ ~lastOp.wasConnected)
    => (~isConnected /\ lastOp.events = <<>>)

\* C6: right after disconnect() on a connected adapter (a handle is present and
\* the store handle was bound by connect()), in owned or external mode, the
\* handle is cleared, isConnected() is false and exactly one
\* 'disconnect' event was emitted by the call.
C6_DisconnectDisconnects ==
  (lastOp.op = "disconnect" /\ lastOp.wasConnected /\ contract # NULL)
    => (web3 = NULL /\ ~isConnected /\ lastOp.events = <<"disconnect">>)

\* C7: isConnected() is true exactly when an escrow-store handle (this.contract)
\* is bound.
C7_ConnectedIffContractBound ==
  isConnected <=> contract # NULL

\* C8: once the caller has called disconnect(), the owned connection stays
\* closed until the caller itself calls connect(): no step that leaves the
\* caller's disconnect in force opens a handle.
C8_NoResurrection ==
  [][(manualDisc /\ manualDisc' /\ web3 = NULL) => web3' = NULL]_vars

\* C9: with a secondary endpoint P2 distinct from the primary P1 and the adapter
\* connected to P1, when the liveness query sent on that connection fails, its
\* failure handler closes the link, selects P2 and opens a probe socket to P2.
C9_Failover ==
  (/\ lastOp.op = "probeFailure"
   /\ lastOp.arg = "fresh"
   /\ lastOp.ep = P1
   /\ lastOp.prov = P1
   /\ secondaryProvider = P2)
    => (/\ web3 = NULL
        /\ provider = P2
        /\ lastOp.target = P2
        /\ attempts[P2] >= 1)

\* C9's case: the failure handler has run on a connection to P1
C9_Witness ==
  /\ lastOp.op = "probeFailure"
  /\ lastOp.arg = "fresh"
  /\ ~lastOp.threw
  /\ lastOp.ep = P1
  /\ lastOp.prov = P1
  /\ secondaryProvider = P2
  /\ provider = P2
  /\ lastOp.target = P2

(* Claim about the identifier codec, checked under SpecCodec *)

\* upper-case hex digits replaced by their lower-case form
RECURSIVE ToLower(_)
ToLower(s) ==
  IF s = "" THEN ""
  ELSE (IF Char(s, 1) \in HexChars THEN Char(LowerDigits, HexVal(Char(s, 1)) + 1)
        ELSE Char(s, 1)) \o ToLower(SubSeq(s, 2, Len(s)))

\* C14 as claimed: the id of the resolved transfer is exactly the UUID string
\* passed to getTransfer, upper-case digits included.
C14_RoundTripExact ==
  lookup.pc = "done" => lookup.id = lookup.uuid

\* C14 as it holds: the id of the resolved transfer is the UUID passed to
\* getTransfer written in lower case (hence exactly that UUID when it has no
\* upper-case digit).
C14_RoundTripLowerCase ==
  lookup.pc = "done" => lookup.id = ToLower(lookup.uuid)

\* C14's case: a UUID with upper-case digits has been resolved
C14_Witness ==
  /\ lookup.pc = "done"
  /\ lookup.uuid # ToLower(lookup.uuid)
  /\ lookup.id # ""

(* Further claims about the connection manager, checked under SpecConn *)

\* C15: over any sequence of connect(), disconnect() and probe reconnects the
\* health-probe interval is started at most once.
C15_SingleProbeTimer ==
  intervals <= 1

\* C15's case: a probe-triggered connect() has run _heartbeat() again while the
\* interval of the first connect() is running
C15_Witness ==
  /\ lastOp.op = "connect"
  /\ lastOp.by = "probe"
  /\ lastOp.events = <<"connect">>
  /\ extWeb3 = NULL
  /\ intervals = 1

\* C16: while an externally supplied handle is present no probe tick runs, that
\* is, none issues a liveness query, flips the endpoint or opens a probe socket.
C16_NoProbingWithExternal ==
  lastOp.op = "tick" => extWeb3 = NULL

\* C19: the liveness-failure handler never runs with this.web3 already cleared
\* (it would dereference null).
C19_HandlerNeverSeesNull ==
  ~(lastOp.op = "probeFailure" /\ lastOp.threw)

\* C20: whenever an owned handle is bound, the endpoint it was opened against
\* is the selected endpoint this.provider.
C20_BoundEndpointIsSelected ==
  web3 # NULL => web3 = provider

\* C20's case: after a failover the adapter is connected to the secondary
\* endpoint, with probe sockets still pending
C20_Witness ==
  /\ secondaryProvider = P2
  /\ web3 = P2
  /\ provider = P2
  /\ PendingAttempts > 0

----------------------------------------------------------------------------
(* Claims about the event router, checked under SpecRouter and SpecForce *)

\* C10: given a store whose state only moves prepare -> fulfill or prepare ->
\* abort, the lifecycle events emitted for the transfer never show a prepare
\* event after a fulfill or abort event.
C10_NoRegression ==
  store.state \in {0, 1, 2} =>
    \A i, j \in 1..Len(emitted) :
      (i < j /\ emitted[i].state \in {"fulfill", "abort"}) => emitted[j].state # "prepare"

\* the event name the spec's dispatch rule gives for direction d and state st
LifecycleName(d, st) == IF d = "undefined" THEN "event_" \o st ELSE d \o "_" \o st

\* C11: no Update notification yields more than one lifecycle event, and each
\* such event is named '<dir>_<state>' when a side of the transfer is the
\* adapter's account (outgoing_prepare for from = self, to = other, state =
\* prepare) and 'event_<state>' when neither side is.
C11_OneEventPerUpdate ==
  /\ \A i, j \in 1..Len(emitted) :
       (i < j /\ emitted[i].src = "Update" /\ emitted[j].src = "Update")
         => emitted[i].note # emitted[j].note
  /\ \A i \in 1..Len(emitted) :
       emitted[i].src = "Update" =>
         /\ emitted[i].name = LifecycleName(emitted[i].dir, emitted[i].state)
         /\ (store.from = SelfAddress /\ store.to = OtherAddress
               /\ emitted[i].state = "prepare") => emitted[i].name = "outgoing_prepare"
         /\ (SelfAddress \notin {store.from, store.to}) => emitted[i].dir = "undefined"

\* the closed set of event names of spec section 6
EventNames ==
  {"connect", "disconnect"}
    \cup {LifecycleName(d, st) : d \in {"incoming", "outgoing", "undefined"},
                                 st \in {"prepare", "fulfill", "abort"}}

\* C12: every event the adapter emits (from a notification, from a forced
\* re-emission, from connect() or disconnect()) has a name in the closed set,
\* whatever record the store read resolves to.
C12_ClosedEventNames ==
  /\ \A i \in 1..Len(emitted) : emitted[i].name \in EventNames
  /\ \A i \in 1..Len(forced) : forced[i].event \in EventNames \cup {NULL}
  /\ \A i \in 1..Len(lastOp.events) : lastOp.events[i] \in EventNames

\* the direction the claim gives a transfer: from is tested first
ClaimedDirection(t) ==
  IF t.from = getAccount THEN "outgoing"
  ELSE IF t.to = getAccount THEN "incoming"
  ELSE "undefined"

\* C17: _processUpdate and forceEmitFulfill dispatch a transfer as outgoing
\* whenever from is the adapter's account, as incoming when only to is, and
\* undirected otherwise.
C17_FromDecidesFirst ==
  /\ \A i \in 1..Len(emitted) : emitted[i].dir = ClaimedDirection(Transfer(store))
  /\ \A i \in 1..Len(forced) :
       (forced[i].op = "forceEmitFulfill" /\ forced[i].result = "true")
         => forced[i].event = ClaimedDirection(forced[i]) \o "_fulfill"

\* C13: a forceEmit call that resolved the transfer returns true with its
\* '<dir>_prepare' / '<dir>_fulfill' event emitted exactly when from or to is
\* the adapter's account, and returns false with no event otherwise; it fails
\* only when resolving the transfer fails.
C13_ForceEmitReturns ==
  \A i \in 1..Len(forced) :
    LET r == forced[i]
        suffix == IF r.op = "forceEmitPrepare" THEN "_prepare" ELSE "_fulfill"
    IN  IF r.err \in {NoContractError, ReadError}
        THEN r.result = "throws" /\ r.event = NULL
        ELSE IF getAccount \in {r.from, r.to}
             THEN r.result = "true"
                    /\ r.event \in {"incoming" \o suffix, "outgoing" \o suffix}
             ELSE r.result = "false" /\ r.event = NULL

\* C18: every fulfill event emitted from the notification stream carries
\* defined fulfillment bytes.
C18_FulfillCarriesFulfillment ==
  \A i \in 1..Len(emitted) : emitted[i].state = "fulfill" => emitted[i].ful

(* Claim about probe-triggered reconnection, checked under SpecConn *)

\* C21: when the probe socket opened against endpoint E connects and the
\* connect() it triggers opens an owned handle, that handle is opened against E.
C21_ReconnectTargetsProbedEndpoint ==
  (lastOp.op = "connect" /\ lastOp.by = "probe" /\ ~lastOp.threw
     /\ lastOp.ep = NULL /\ extWeb3 = NULL /\ web3 # NULL)
    => web3 = lastOp.target

====
